---- MODULE Spec2Model ----
(***************************************************************************)
(* Background timer of the ChronoMind service worker (src/sw.js).          *)
(*                                                                         *)
(* The worker keeps one timer state object and one interval handle.  The   *)
(* handlers (message, notificationclick, the interval callback) run to     *)
(* completion one at a time.  clients.matchAll(), showNotification() and   *)
(* getNotifications() return promises: the handler only starts them, and   *)
(* their callbacks run later, in any order, reading the state object as    *)
(* it is at that moment.                                                   *)
(*                                                                         *)
(* Times are milliseconds of performance.now().  The clock does not        *)
(* advance inside one handler.                                             *)
(***************************************************************************)
EXTENDS Integers, Sequences, FiniteSets

VARIABLES
    state,          \* the timer state object (sw.js:57)
    timerInterval,  \* the interval handle held by the worker, Null when none (sw.js:55)
    intervals,      \* the host's armed intervals: handle -> clock reading of the next firing
    now,            \* performance.now()
    pending,        \* promises started and not yet settled, with what their callback does
    notifications,  \* the notifications on display: tag -> the titles shown under it
    posted,         \* the messages posted to clients by the last step
    runE,           \* history: elapsedTime merged by the last effective start
    runT0,          \* history: clock reading of the last effective start
    runFinished,    \* history: stops tagged isFinished since the last effective start
    lastEvent       \* history: the handler that ran last, and its input

vars == <<state, timerInterval, intervals, now, pending, notifications, posted,
          runE, runT0, runFinished, lastEvent>>

----------------------------------------------------------------------------
(* Bounds of the model *)

MaxNow == 3000
MaxBacklog == 1
MaxHandles == 2

ClockSteps == {1000}
FirstEventAt == {1000}
Clients == {"c1", "c2"}
NullSource == "none"
Requesters == {"c1", NullSource}

(* Values a client may put in a start payload.  "countdown" stands for any *)
(* mode string the worker has no literal for.                              *)
Modes == {"stopwatch", "timer", "countdown"}
DurationValues == {2000}
ElapsedValues == {0, 1000}
SessionValues == {"T1", "T2"}

----------------------------------------------------------------------------
(* Program constants *)

TickPeriod == 1000
Null == 0
NullSession == "null"
PersistentTag == "chronomind-timer"
FinishedTag == "chronomind-timer-finished"
Tags == {PersistentTag, FinishedTag}

Handles == 1..MaxHandles

DefaultState ==
    [isRunning |-> FALSE, mode |-> "stopwatch", startTime |-> 0, elapsedTime |-> 0,
     timerDuration |-> 0, displayTime |-> 0, sessionStartTime |-> NullSession]

(* The start payloads of the documented shape                              *)
(* {mode, timerDuration?, elapsedTime?, sessionStartTime?}: a record whose *)
(* optional fields may be missing.                                         *)
Optional(S) == {<<>>} \cup {<<v>> : v \in S}

Payload(m, d, e, s) ==
    [f \in {"mode"} \cup (IF d # <<>> THEN {"timerDuration"} ELSE {})
                     \cup (IF e # <<>> THEN {"elapsedTime"} ELSE {})
                     \cup (IF s # <<>> THEN {"sessionStartTime"} ELSE {}) |->
        CASE f = "mode" -> m
          [] f = "timerDuration" -> d[1]
          [] f = "elapsedTime" -> e[1]
          [] f = "sessionStartTime" -> s[1]]

Payloads ==
    {Payload(m, d, e, s) : m \in Modes, d \in Optional(DurationValues),
                           e \in Optional(ElapsedValues), s \in Optional(SessionValues)}

CarriedFields == {"elapsedTime", "sessionStartTime"}

Event(kind, effective) ==
    [kind |-> kind, effective |-> effective, source |-> NullSource, action |-> "",
     fields |-> {}]

----------------------------------------------------------------------------
(* The worker's memory and the promises it has started, as one value the   *)
(* functions below transform.                                              *)

World ==
    [state |-> state, timerInterval |-> timerInterval, intervals |-> intervals,
     pending |-> pending, runFinished |-> runFinished]

(* What a message is to carry of the state, kept with the promise so that  *)
(* what is delivered can be compared with what was there at the call.      *)
Snapshot(st) ==
    [isRunning |-> st.isRunning, elapsedTime |-> st.elapsedTime,
     displayTime |-> st.displayTime]

MatchAllOp(type, st, isFinished) ==
    [op |-> "matchAll", type |-> type, isFinished |-> isFinished, issued |-> Snapshot(st),
     tag |-> "", title |-> ""]

ShowOp(tag, title) ==
    [op |-> "showNotification", type |-> "", isFinished |-> FALSE, issued |-> Snapshot(DefaultState),
     tag |-> tag, title |-> title]

GetNotificationsOp(tag) ==
    [op |-> "getNotifications", type |-> "", isFinished |-> FALSE, issued |-> Snapshot(DefaultState),
     tag |-> tag, title |-> ""]

FreeHandles == Handles \ DOMAIN intervals

setInterval(w, h) ==
    [w EXCEPT !.timerInterval = h,
              !.intervals = [k \in DOMAIN w.intervals \cup {h} |->
                               IF k = h THEN now + TickPeriod ELSE w.intervals[k]]]

clearInterval(ivs, h) == [k \in DOMAIN ivs \ {h} |-> ivs[k]]

showPersistentNotification(w) ==
    IF ~w.state.isRunning
    THEN [w EXCEPT !.pending = Append(@, GetNotificationsOp(PersistentTag))]
    ELSE LET title == IF w.state.mode = "stopwatch" THEN "Stopwatch Running"
                                                     ELSE "Timer Running"
         IN [w EXCEPT !.pending = Append(@, ShowOp(PersistentTag, title))]

(* stop without the isRunning guard *)
stopTimerNoGuard(w, isFinished) ==
    LET s1 == [w.state EXCEPT !.isRunning = FALSE]
        s2 == IF s1.startTime > 0
              THEN [s1 EXCEPT !.elapsedTime = now - s1.startTime]
              ELSE s1
        w1 == [w EXCEPT !.state = s2,
                        !.intervals = clearInterval(@, w.timerInterval),
                        !.timerInterval = Null,
                        !.pending = Append(@, MatchAllOp("stopped", s2, isFinished)),
                        !.runFinished = IF isFinished THEN @ + 1 ELSE @]
        w2 == IF isFinished
              THEN [w1 EXCEPT !.pending = Append(@, ShowOp(FinishedTag, "Timer Finished!"))]
              ELSE w1
    IN showPersistentNotification(w2)

stopTimer(w, isFinished) ==
    IF ~w.state.isRunning THEN w
    ELSE LET s1 == [w.state EXCEPT !.isRunning = FALSE]
             s2 == IF s1.startTime > 0
                   THEN [s1 EXCEPT !.elapsedTime = now - s1.startTime]
                   ELSE s1
             w1 == [w EXCEPT !.state = s2,
                             !.intervals = clearInterval(@, w.timerInterval),
                             !.timerInterval = Null,
                             !.pending = Append(@, MatchAllOp("stopped", s2, isFinished)),
                             !.runFinished = IF isFinished THEN @ + 1 ELSE @]
             w2 == IF isFinished
                   THEN [w1 EXCEPT !.pending = Append(@, ShowOp(FinishedTag, "Timer Finished!"))]
                   ELSE w1
         IN showPersistentNotification(w2)

(* start replacing the state by the payload instead of merging into it *)
MergeReplace(st, initialState) ==
    [f \in DOMAIN st |-> IF f \in DOMAIN initialState THEN initialState[f] ELSE DefaultState[f]]

Merge(st, initialState) ==
    [f \in DOMAIN st |-> IF f \in DOMAIN initialState THEN initialState[f] ELSE st[f]]

(* start without the isRunning guard *)
startTimerNoGuard(w, initialState, h) ==
    LET merged == [Merge(w.state, initialState) EXCEPT !.isRunning = TRUE]
        s1 == [merged EXCEPT !.startTime = now - merged.elapsedTime]
    IN setInterval([w EXCEPT !.state = s1, !.runFinished = 0], h)

(* start anchoring startTime at the clock reading, without the carried-over elapsedTime *)
startTimerNoCarry(w, initialState, h) ==
    IF w.state.isRunning THEN w
    ELSE LET merged == [Merge(w.state, initialState) EXCEPT !.isRunning = TRUE]
             s1 == [merged EXCEPT !.startTime = now]
         IN setInterval([w EXCEPT !.state = s1, !.runFinished = 0], h)

startTimer(w, initialState, h) ==
    IF w.state.isRunning THEN w
    ELSE LET merged == [Merge(w.state, initialState) EXCEPT !.isRunning = TRUE]
             s1 == [merged EXCEPT !.startTime = now - merged.elapsedTime]
         IN setInterval([w EXCEPT !.state = s1, !.runFinished = 0], h)

(* tick without the floor of displayTime at 0 *)
tickNoClamp(w) ==
    LET s1 == [w.state EXCEPT !.elapsedTime = now - w.state.startTime]
        s3 == [s1 EXCEPT !.displayTime = IF s1.mode = "stopwatch"
                                         THEN s1.elapsedTime
                                         ELSE s1.timerDuration - s1.elapsedTime]
        w1 == [w EXCEPT !.state = s3, !.pending = Append(@, MatchAllOp("tick", s3, FALSE))]
        w2 == showPersistentNotification(w1)
    IN IF s3.mode = "timer" /\ s3.displayTime <= 0 THEN stopTimer(w2, TRUE) ELSE w2

(* tick auto-stopping only below zero, which the floor never lets happen *)
tickStopsBelowZero(w) ==
    LET s1 == [w.state EXCEPT !.elapsedTime = now - w.state.startTime]
        s2 == [s1 EXCEPT !.displayTime = IF s1.mode = "stopwatch"
                                         THEN s1.elapsedTime
                                         ELSE s1.timerDuration - s1.elapsedTime]
        s3 == IF s2.displayTime < 0 THEN [s2 EXCEPT !.displayTime = 0] ELSE s2
        w1 == [w EXCEPT !.state = s3, !.pending = Append(@, MatchAllOp("tick", s3, FALSE))]
        w2 == showPersistentNotification(w1)
    IN IF s3.mode = "timer" /\ s3.displayTime < 0 THEN stopTimer(w2, TRUE) ELSE w2

tick(w) ==
    LET s1 == [w.state EXCEPT !.elapsedTime = now - w.state.startTime]
        s2 == [s1 EXCEPT !.displayTime = IF s1.mode = "stopwatch"
                                         THEN s1.elapsedTime
                                         ELSE s1.timerDuration - s1.elapsedTime]
        s3 == IF s2.displayTime < 0 THEN [s2 EXCEPT !.displayTime = 0] ELSE s2
        w1 == [w EXCEPT !.state = s3, !.pending = Append(@, MatchAllOp("tick", s3, FALSE))]
        w2 == showPersistentNotification(w1)
    IN IF s3.mode = "timer" /\ s3.displayTime <= 0 THEN stopTimer(w2, TRUE) ELSE w2

(* reset that leaves sessionStartTime as it was *)
resetTimerKeepsSession(w) ==
    LET w1 == stopTimer(w, FALSE)
        s1 == [DefaultState EXCEPT !.sessionStartTime = w1.state.sessionStartTime]
    IN [w1 EXCEPT !.state = s1, !.pending = Append(@, MatchAllOp("reset", s1, FALSE))]

(* reset doing nothing at all on an idle timer *)
resetTimerIgnoredWhenIdle(w) ==
    IF ~w.state.isRunning THEN w
    ELSE LET w1 == stopTimer(w, FALSE)
         IN [w1 EXCEPT !.state = DefaultState,
                       !.pending = Append(@, MatchAllOp("reset", DefaultState, FALSE))]

resetTimer(w) ==
    LET w1 == stopTimer(w, FALSE)
    IN [w1 EXCEPT !.state = DefaultState,
                  !.pending = Append(@, MatchAllOp("reset", DefaultState, FALSE))]

----------------------------------------------------------------------------
(* Steps *)

Commit(w) ==
    /\ Len(pending) <= MaxBacklog
    /\ state' = w.state
    /\ timerInterval' = w.timerInterval
    /\ intervals' = w.intervals
    /\ pending' = w.pending
    /\ runFinished' = w.runFinished

Init ==
    /\ state = DefaultState
    /\ timerInterval = Null
    /\ intervals = [k \in {} |-> 0]
    /\ now \in FirstEventAt
    /\ pending = <<>>
    /\ notifications = [t \in Tags |-> <<>>]
    /\ posted = {}
    /\ runE = 0
    /\ runT0 = 0
    /\ runFinished = 0
    /\ lastEvent = Event("init", FALSE)

(* message {command: 'start', data} *)
OnStart(p) ==
    /\ FreeHandles # {}
    /\ LET h == CHOOSE k \in FreeHandles : \A j \in FreeHandles : k <= j
           w == startTimer(World, p, h)
       IN /\ Commit(w)
          /\ runE' = IF state.isRunning THEN runE
                      ELSE IF "elapsedTime" \in DOMAIN p THEN p.elapsedTime
                      ELSE state.elapsedTime
          /\ runT0' = IF state.isRunning THEN runT0 ELSE now
    /\ lastEvent' = [Event("start", ~state.isRunning) EXCEPT
                        !.fields = IF state.isRunning THEN {} ELSE DOMAIN p \cap CarriedFields]
    /\ posted' = {}
    /\ UNCHANGED <<now, notifications>>

(* message {command: 'stop'} *)
OnStop ==
    /\ Commit(stopTimer(World, FALSE))
    /\ lastEvent' = Event("stop", state.isRunning)
    /\ posted' = {}
    /\ UNCHANGED <<now, notifications, runE, runT0>>

(* message {command: 'reset'} *)
OnReset ==
    /\ Commit(resetTimer(World))
    /\ lastEvent' = Event("reset", state.isRunning)
    /\ posted' = {}
    /\ UNCHANGED <<now, notifications, runE, runT0>>

(* getState answered with a broadcast to every client *)
OnGetStateBroadcast(src) ==
    /\ posted' = IF src # NullSource
                 THEN {[to |-> c, type |-> "state", state |-> state, isFinished |-> FALSE,
                        issued |-> Snapshot(state)] : c \in Clients}
                 ELSE {}
    /\ lastEvent' = [Event("getState", src # NullSource) EXCEPT !.source = src]
    /\ UNCHANGED <<state, timerInterval, intervals, now, pending, notifications,
                   runE, runT0, runFinished>>

(* message {command: 'getState'} from src; a message without a source gets no reply *)
OnGetState(src) ==
    /\ posted' = IF src # NullSource
                 THEN {[to |-> src, type |-> "state", state |-> state, isFinished |-> FALSE,
                        issued |-> Snapshot(state)]}
                 ELSE {}
    /\ lastEvent' = [Event("getState", src # NullSource) EXCEPT !.source = src]
    /\ UNCHANGED <<state, timerInterval, intervals, now, pending, notifications,
                   runE, runT0, runFinished>>

(* the interval h fires *)
Tick(h) ==
    /\ h \in DOMAIN intervals
    /\ now >= intervals[h]
    /\ Commit(tick([World EXCEPT !.intervals[h] = now + TickPeriod]))
    /\ lastEvent' = Event("tick", state.isRunning)
    /\ posted' = {}
    /\ UNCHANGED <<now, notifications, runE, runT0>>

(* a click stopping the timer whatever was clicked, the body included *)
OnNotificationClickAlwaysStops(tag, action) ==
    /\ notifications[tag] # <<>>
    /\ action = "stop" => tag = PersistentTag
    /\ notifications' = [notifications EXCEPT ![tag] = Tail(@)]
    /\ Commit(stopTimer(World, /\ tag = PersistentTag
                                /\ state.mode = "timer"
                                /\ state.displayTime <= 0))
    /\ lastEvent' = [Event("notificationclick", action = "stop" /\ state.isRunning)
                        EXCEPT !.action = action]
    /\ posted' = {}
    /\ UNCHANGED <<now, runE, runT0>>

(* the user clicks the notification shown under tag: its body (action "") *)
(* or its Stop button, which only the persistent notification has          *)
OnNotificationClick(tag, action) ==
    /\ notifications[tag] # <<>>
    /\ action = "stop" => tag = PersistentTag
    /\ notifications' = [notifications EXCEPT ![tag] = Tail(@)]
    /\ IF action = "stop"
       THEN Commit(stopTimer(World, /\ tag = PersistentTag
                                    /\ state.mode = "timer"
                                    /\ state.displayTime <= 0))
       ELSE UNCHANGED <<state, timerInterval, intervals, pending, runFinished>>
    /\ lastEvent' = [Event("notificationclick", action = "stop" /\ state.isRunning)
                        EXCEPT !.action = action]
    /\ posted' = {}
    /\ UNCHANGED <<now, runE, runT0>>

(* The promise pending[i] settles and its callback runs.  Notification     *)
(* promises settle in any order.  matchAll promises settle in the order    *)
(* they were started; their callbacks only post messages and commute with  *)
(* the notification callbacks, so the model runs them after those.         *)
Settle(i) ==
    /\ i \in 1..Len(pending)
    /\ pending[i].op = "matchAll" => /\ \A j \in 1..(i - 1) : pending[j].op # "matchAll"
                                     /\ \A j \in 1..Len(pending) : pending[j].op = "matchAll"
    /\ LET o == pending[i]
       IN /\ posted' = IF o.op = "matchAll"
                       THEN {[to |-> c, type |-> o.type, state |-> state,
                              isFinished |-> o.isFinished, issued |-> o.issued] : c \in Clients}
                       ELSE {}
          /\ notifications' =
               CASE o.op = "showNotification" -> [notifications EXCEPT ![o.tag] = <<o.title>>]
                 [] o.op = "getNotifications" -> [notifications EXCEPT ![o.tag] = <<>>]
                 [] OTHER -> notifications
    /\ pending' = [j \in 1..(Len(pending) - 1) |->
                      IF j < i THEN pending[j] ELSE pending[j + 1]]
    /\ lastEvent' = Event("settle", FALSE)
    /\ UNCHANGED <<state, timerInterval, intervals, now, runE, runT0, runFinished>>

(* time passes; a promise settles well within one step of the clock *)
Advance(d) ==
    /\ pending = <<>>
    /\ now + d <= MaxNow
    /\ now' = now + d
    /\ lastEvent' = Event("clock", FALSE)
    /\ posted' = {}
    /\ UNCHANGED <<state, timerInterval, intervals, pending, notifications,
                   runE, runT0, runFinished>>

Next ==
    \/ \E p \in Payloads : OnStart(p)
    \/ OnStop
    \/ OnReset
    \/ \E src \in Requesters : OnGetState(src)
    \/ \E h \in Handles : Tick(h)
    \/ \E tag \in Tags, action \in {"stop", ""} : OnNotificationClick(tag, action)
    \/ \E i \in DOMAIN pending : Settle(i)
    \/ \E d \in ClockSteps : Advance(d)

Spec == Init /\ [][Next]_vars

(* The host runs what is due: an interval callback that is due fires, a    *)
(* started promise settles, the clock goes on.  Client messages and clicks *)
(* may or may not come.                                                    *)
Fairness ==
    /\ WF_vars(\E h \in Handles : Tick(h))
    /\ WF_vars(\E i \in DOMAIN pending : Settle(i))
    /\ WF_vars(\E d \in ClockSteps : Advance(d))

(* sessionStartTime is only stored and sent back: no test of the worker    *)
(* reads it, so the runs checked for progress start without one.           *)
LivePayloads == {p \in Payloads : "sessionStartTime" \notin DOMAIN p}

LiveNext ==
    \/ \E p \in LivePayloads : OnStart(p)
    \/ OnStop
    \/ OnReset
    \/ \E src \in Requesters : OnGetState(src)
    \/ \E h \in Handles : Tick(h)
    \/ \E tag \in Tags, action \in {"stop", ""} : OnNotificationClick(tag, action)
    \/ \E i \in DOMAIN pending : Settle(i)
    \/ \E d \in ClockSteps : Advance(d)

LiveSpec == Init /\ [][LiveNext]_vars /\ Fairness

----------------------------------------------------------------------------
(* Claims *)

(* Every handler leaves its own kind in lastEvent, so the kind found after *)
(* a step tells which handler the step was.                                *)
StepOf(kind) == lastEvent'.kind = kind
PersistentShown == Len(notifications[PersistentTag])

(* C1: in every reachable state isRunning is true exactly when the worker  *)
(* holds an interval handle, and the armed intervals are that handle and   *)
(* no other: never two intervals at once.                                  *)
C1_RunningIffArmed ==
    /\ state.isRunning <=> timerInterval # Null
    /\ DOMAIN intervals = IF timerInterval = Null THEN {} ELSE {timerInterval}

C1_Witness ==
    /\ lastEvent.kind = "start"
    /\ ~lastEvent.effective
    /\ state.isRunning
    /\ DOMAIN intervals = {timerInterval}

(* The value a tick leaves in state.elapsedTime is E + (t - t0), E being   *)
(* the payload's elapsedTime or, without one, the value frozen before.     *)
TickSetsTotal ==
    lastEvent.kind = "tick" => state.elapsedTime = runE + (now - runT0)

(* C2: every tick at clock reading t sets elapsedTime = E + (t - t0) and   *)
(* the tick message its broadcast delivers carries that same value.        *)
C2_TickSetsAndBroadcastsTotal ==
    /\ TickSetsTotal
    /\ \A m \in posted : m.type = "tick" => m.state.elapsedTime = m.issued.elapsedTime

(* The last "stopped" broadcast started and not yet delivered *)
LastStoppedOp ==
    {i \in DOMAIN pending : /\ pending[i].type = "stopped"
                            /\ \A j \in DOMAIN pending : j > i => pending[j].type # "stopped"}

(* C3: a stop that takes effect (stop command, notification Stop action,   *)
(* auto-stop, the stop inside reset) freezes elapsedTime at E + (t - t0),  *)
(* whatever E the start carried, E >= t0 included.                         *)
C3_StopFreezesTotal ==
    /\ (/\ lastEvent.kind \in {"stop", "notificationclick", "tick"}
        /\ lastEvent.effective
        /\ ~state.isRunning)
          => state.elapsedTime = runE + (now - runT0)
    /\ (lastEvent.kind = "reset" /\ lastEvent.effective)
          => \A i \in LastStoppedOp : pending[i].issued.elapsedTime = runE + (now - runT0)

(* A run in mode m started with elapsedTime 0: the tick that finds         *)
(* elapsedTime >= timerDuration leaves displayTime 0, isRunning false, no  *)
(* interval armed and one finished stop issued for the run.                *)
TickTerminates(m) ==
    (/\ lastEvent.kind = "tick"
     /\ state.mode = m
     /\ runE = 0
     /\ state.elapsedTime >= state.timerDuration)
       => /\ state.displayTime = 0
          /\ ~state.isRunning
          /\ timerInterval = Null
          /\ DOMAIN intervals = {}
          /\ runFinished = 1

C5_StartWhileRunningIsNoOp ==
    [][(StepOf("start") /\ state.isRunning)
          => /\ state' = state
             /\ timerInterval' = timerInterval
             /\ intervals' = intervals
             /\ pending' = pending]_vars

C5_Witness ==
    /\ lastEvent.kind = "start"
    /\ ~lastEvent.effective
    /\ state.isRunning
    /\ state.elapsedTime > runE

(* C6: right after a reset the state is the default idle stopwatch value   *)
(* and no interval is armed, and a getState that comes next is answered    *)
(* with that state.                                                        *)
C6_ResetRestoresDefault ==
    /\ [](lastEvent.kind = "reset"
            => /\ state = DefaultState
               /\ timerInterval = Null
               /\ DOMAIN intervals = {})
    /\ [][(lastEvent.kind = "reset" /\ lastEvent'.kind = "getState" /\ lastEvent'.source \in Clients)
            => posted' = {[to |-> lastEvent'.source, type |-> "state", state |-> DefaultState,
                           isFinished |-> FALSE, issued |-> Snapshot(DefaultState)]}]_vars

C6_Witness ==
    /\ lastEvent.kind = "getState"
    /\ runT0 > 0
    /\ \E m \in posted : m.type = "state" /\ m.state = DefaultState

(* C7: the persistent notification is on display, once, in every state     *)
(* where isRunning is true, and not on display where it is false.          *)
C7_NotificationTracksRunning ==
    PersistentShown = IF state.isRunning THEN 1 ELSE 0

(* C8: while the timer is running no step lowers elapsedTime, the reset    *)
(* that discards the state apart; while it is idle only an effective start *)
(* or a reset changes elapsedTime.                                         *)
C8_ElapsedMonotone ==
    [][/\ (state.isRunning /\ ~StepOf("reset"))
            => state'.elapsedTime >= state.elapsedTime
       /\ (~state.isRunning /\ ~StepOf("reset") /\ ~StepOf("start"))
            => state'.elapsedTime = state.elapsedTime]_vars

C8_Witness ==
    /\ lastEvent.kind = "tick"
    /\ state.isRunning
    /\ runE > 0
    /\ state.elapsedTime > runE

(* C9: displayTime is never negative, also when elapsedTime exceeds        *)
(* timerDuration.                                                          *)
C9_DisplayTimeNonNegative ==
    state.displayTime >= 0

C9_Witness ==
    /\ lastEvent.kind = "tick"
    /\ state.mode # "stopwatch"
    /\ runE > state.timerDuration
    /\ state.elapsedTime > state.timerDuration
    /\ state.displayTime = 0

(* C10: sessionStartTime changes only in a reset or in an effective start  *)
(* whose payload carries the new value; ticks, stops and starts without a  *)
(* sessionStartTime leave it as it is.                                     *)
C10_SessionStartTimePreserved ==
    [][state'.sessionStartTime # state.sessionStartTime
          => \/ StepOf("reset")
             \/ /\ StepOf("start")
                /\ ~state.isRunning
                /\ \E p \in Payloads : /\ "sessionStartTime" \in DOMAIN p
                                       /\ p.sessionStartTime = state'.sessionStartTime
                                       /\ OnStart(p)]_vars

C10_Witness ==
    /\ lastEvent.kind = "start"
    /\ lastEvent.effective
    /\ "sessionStartTime" \notin lastEvent.fields
    /\ state.sessionStartTime \in SessionValues
    /\ runT0 > 0
    /\ state.elapsedTime > 0

(* C11, as stated: a reset received while the timer is idle leaves every   *)
(* field of the state as it was and starts no broadcast.                   *)
C11_IdleResetIgnored ==
    [][(StepOf("reset") /\ ~state.isRunning)
          => /\ state' = state
             /\ pending' = pending]_vars

(* C11, amended: a reset received while the timer is idle performs no stop *)
(* (no stopped broadcast, no notification operation, the handle and the    *)
(* intervals untouched), but it still replaces the state by the default    *)
(* value, a frozen elapsedTime and a sessionStartTime included, and starts *)
(* exactly one reset broadcast.                                            *)
C11_IdleResetRestoresDefault ==
    [][(StepOf("reset") /\ ~state.isRunning)
          => /\ state' = DefaultState
             /\ timerInterval' = timerInterval
             /\ intervals' = intervals
             /\ pending' = Append(pending, MatchAllOp("reset", DefaultState, FALSE))]_vars

C11_Witness ==
    /\ lastEvent.kind = "reset"
    /\ ~lastEvent.effective
    /\ runE > 0
    /\ state = DefaultState
    /\ pending # <<>>
    /\ pending[Len(pending)].type = "reset"

(* The step is a stop request: the stop command or a click on the Stop     *)
(* action of a notification.                                               *)
StopRequested ==
    \/ StepOf("stop")
    \/ StepOf("notificationclick") /\ lastEvent'.action = "stop"

(* C12: a stop received while the timer is idle, as a command or as the    *)
(* Stop action of a notification, changes no field of the state, leaves    *)
(* the handle and the intervals alone and starts no promise: no stopped    *)
(* broadcast, no finished notification, no lookup of the persistent one.   *)
(* All that happens is that a clicked notification is dismissed.           *)
C12_StopWhileIdleIsNoOp ==
    [][(StopRequested /\ ~state.isRunning)
          => /\ state' = state
             /\ timerInterval' = timerInterval
             /\ intervals' = intervals
             /\ pending' = pending
             /\ runFinished' = runFinished
             /\ notifications'[FinishedTag] = notifications[FinishedTag]
             /\ StepOf("stop") => notifications' = notifications]_vars

C12_Witness ==
    /\ lastEvent.kind = "notificationclick"
    /\ lastEvent.action = "stop"
    /\ ~lastEvent.effective
    /\ ~state.isRunning
    /\ state.elapsedTime > 0
    /\ state.startTime > 0

(* C13: getState changes no field of the state, leaves the handle and the  *)
(* intervals alone and starts no promise; to the client that asked it      *)
(* posts exactly one message, of type state, carrying the state as it is,  *)
(* and to the other clients nothing.                                       *)
C13_GetStateRepliesToRequesterOnly ==
    [][StepOf("getState")
          => /\ state' = state
             /\ timerInterval' = timerInterval
             /\ intervals' = intervals
             /\ pending' = pending
             /\ lastEvent'.source \in Clients
                  => /\ Cardinality(posted') = 1
                     /\ \A m \in posted' : /\ m.to = lastEvent'.source
                                            /\ m.type = "state"
                                            /\ m.state = state]_vars

C13_Witness ==
    /\ lastEvent.kind = "getState"
    /\ lastEvent.source \in Clients
    /\ state.isRunning
    /\ state.elapsedTime > runE
    /\ \E m \in posted : m.to = lastEvent.source /\ m.state = state

(* The "stopped" broadcasts among the promises q *)
StoppedOps(q) == {i \in DOMAIN q : q[i].type = "stopped"}

(* C14: a click on the Stop action leaves the state, the handle and the    *)
(* intervals exactly as the stop command would in the same situation: a    *)
(* running timer becomes idle with its interval disarmed and one stopped   *)
(* broadcast started, an idle one stays as it is.  A click without the     *)
(* stop action changes neither the state nor the tick loop and starts      *)
(* nothing.                                                                *)
C14_ClickStopActsAsStop ==
    [][StepOf("notificationclick")
          => IF lastEvent'.action = "stop"
             THEN /\ state' = stopTimer(World, FALSE).state
                  /\ timerInterval' = stopTimer(World, FALSE).timerInterval
                  /\ intervals' = stopTimer(World, FALSE).intervals
                  /\ state.isRunning
                       => /\ ~state'.isRunning
                          /\ timerInterval' = Null
                          /\ DOMAIN intervals' = {}
                          /\ Cardinality(StoppedOps(pending'))
                                = Cardinality(StoppedOps(pending)) + 1
             ELSE /\ state' = state
                  /\ timerInterval' = timerInterval
                  /\ intervals' = intervals
                  /\ pending' = pending]_vars

C14_Witness ==
    /\ lastEvent.kind = "notificationclick"
    /\ lastEvent.action = "stop"
    /\ lastEvent.effective
    /\ ~state.isRunning
    /\ timerInterval = Null
    /\ state.elapsedTime = runE + (now - runT0)
    /\ state.elapsedTime > runE
    /\ StoppedOps(pending) # {}

(* C15: a stop is tagged isFinished only when the run is a countdown       *)
(* ('timer') whose elapsedTime has reached its timerDuration: right after  *)
(* a handler that stopped the timer with the tag, mode is 'timer' and      *)
(* elapsedTime >= timerDuration, a Stop click before the first tick of a   *)
(* run included.                                                           *)
C15_FinishedOnlyAtZero ==
    (/\ lastEvent.kind \in {"tick", "notificationclick"}
     /\ lastEvent.effective
     /\ ~state.isRunning
     /\ runFinished > 0)
       => /\ state.mode = "timer"
          /\ state.elapsedTime >= state.timerDuration

(* C16: every broadcast delivered to a client carries the state as it was  *)
(* when the handler issued it, whatever ran in between: a stopped message  *)
(* the state frozen by that stop, the one inside a reset included, a tick  *)
(* message the state computed by that tick, the auto-stopping one          *)
(* included.                                                               *)
C16_BroadcastCarriesIssuedState ==
    \A m \in posted : m.type \in {"tick", "stopped", "reset"} => Snapshot(m.state) = m.issued

(* The notification promises started and not yet settled *)
NotificationOps == {i \in DOMAIN pending : pending[i].op # "matchAll"}

(* C17: once every notification operation started so far has completed,    *)
(* no persistent notification is on display while the timer is idle,       *)
(* whatever the order in which the show of the last tick and the           *)
(* lookup-and-close of the stop completed.                                 *)
C17_NoPersistentNotificationWhileIdle ==
    (~state.isRunning /\ NotificationOps = {}) => PersistentShown = 0

(* C18: the two mode tests of tick agree: after a tick that counted        *)
(* displayTime down (any mode other than stopwatch) to 0, the timer has    *)
(* been stopped by that tick with isFinished, whatever the mode string.    *)
C18_ModeTestsAgree ==
    (/\ lastEvent.kind = "tick"
     /\ state.mode # "stopwatch"
     /\ state.displayTime <= 0)
       => /\ ~state.isRunning
          /\ runFinished = 1

(* The running timer is in mode m, and both its next tick and the instant  *)
(* at which elapsedTime reaches timerDuration lie within the clock         *)
(* readings the model covers.                                              *)
CountingDown(m) ==
    /\ state.isRunning
    /\ state.mode = m
    /\ timerInterval \in DOMAIN intervals
    /\ intervals[timerInterval] <= MaxNow
    /\ state.startTime + state.timerDuration <= MaxNow

C20_StopwatchDisplayIsElapsed ==
    state.mode = "stopwatch" => state.displayTime = state.elapsedTime

====
